---- MODULE Spec2Model ----
(***************************************************************************)
(* A model of fromscratchtoml's Sequential neural-network container        *)
(* (neural_network/models/sequential.py) and of its loss functions         *)
(* (neural_network/losses.py).                                             *)
(*                                                                         *)
(* numpy arrays are records [shape, flat]: the shape tuple and the         *)
(* row-major buffer.  Floats are modelled by exact integers / rationals    *)
(* (a quotient is kept as numerator and denominator).  A Python call that  *)
(* raises is a result whose err field names the exception ("" = none).     *)
(* Every layer call the engine issues is appended to a call log, which is  *)
(* how the ordering properties are stated.                                 *)
(***************************************************************************)
EXTENDS Integers, Sequences, FiniteSets, TLC

(***************************************************************************)
(* Bounds of the exploration.                                              *)
(***************************************************************************)
MaxLayers == 2
MaxRows == 3
MaxEpochs == 2
MaxLossRows == 2

(***************************************************************************)
(* numpy arrays.                                                           *)
(***************************************************************************)
Arr(shape, flat) == [shape |-> shape, flat |-> flat]

NoArr == Arr(<<>>, <<>>)

Rank(a) == Len(a.shape)

NRows(a) == a.shape[1]

NCols(a) == a.shape[2]

Min(a, b) == IF a <= b THEN a ELSE b

Max(a, b) == IF a >= b THEN a ELSE b

RECURSIVE SumSeq(_)
SumSeq(s) == IF s = <<>> THEN 0 ELSE Head(s) + SumSeq(Tail(s))

\* a[lo:hi] on the first axis (0-based, hi exclusive, clamped to the length)
SliceRows(a, lo, hi) ==
    LET m == NRows(a)
        l == Min(lo, m)
        h == Max(l, Min(hi, m))
        w == IF Rank(a) = 1 THEN 1 ELSE NCols(a)
    IN  Arr([a.shape EXCEPT ![1] = h - l], SubSeq(a.flat, l * w + 1, h * w))

\* np.expand_dims(y, axis=1) of a rank-1 array
ExpandDims(y) == Arr(<<y.shape[1], 1>>, y.flat)

\* numpy broadcasting of two rank-2 shapes
Broadcastable(s, t) ==
    \A k \in 1..2 : s[k] = t[k] \/ s[k] = 1 \/ t[k] = 1

BroadcastShape(s, t) ==
    [k \in 1..2 |-> IF s[k] = 1 THEN t[k] ELSE s[k]]

\* element (i, j) (1-based) of rank-2 array a seen under a broadcast
BAt(a, i, j) ==
    LET r == IF a.shape[1] = 1 THEN 1 ELSE i
        c == IF a.shape[2] = 1 THEN 1 ELSE j
    IN  a.flat[(r - 1) * a.shape[2] + c]

\* the elementwise combination f(p, t) of two broadcastable rank-2 arrays
Zip(f(_, _), p, t) ==
    LET s == BroadcastShape(p.shape, t.shape)
    IN  Arr(s, [n \in 1..(s[1] * s[2]) |->
                  LET i == ((n - 1) \div s[2]) + 1
                      j == ((n - 1) % s[2]) + 1
                  IN  f(BAt(p, i, j), BAt(t, i, j))])

\* the elementwise image of an array
MapArr(f(_), a) == Arr(a.shape, [n \in 1..Len(a.flat) |-> f(a.flat[n])])

\* index (0-based) of the first maximum of row i of a rank-2 array
ArgmaxRow(a, i) ==
    LET c == NCols(a)
        row == [j \in 1..c |-> a.flat[(i - 1) * c + j]]
    IN  (CHOOSE j \in 1..c :
            /\ \A k \in 1..c : row[k] <= row[j]
            /\ \A k \in 1..(j - 1) : row[k] < row[j]) - 1

\* np.argmax(a, axis=1)
Argmax1(a) == Arr(<<NRows(a)>>, [i \in 1..NRows(a) |-> ArgmaxRow(a, i)])

\* np.count_nonzero
CountNonzero(a) == Cardinality({n \in 1..Len(a.flat) : a.flat[n] # 0})

(***************************************************************************)
(* losses.py.  A loss result is [err, scalar, num, den, mat, deriv]: the   *)
(* error is the scalar num/den (den = 0: the nan numpy's mean gives for an *)
(* empty array) when scalar holds and the matrix mat otherwise.            *)
(***************************************************************************)
LossResult(err, scalar, num, den, mat, deriv) ==
    [err |-> err, scalar |-> scalar, num |-> num, den |-> den, mat |-> mat,
     deriv |-> deriv]

LossRaise(e) == LossResult(e, TRUE, 0, 0, NoArr, NoArr)

\* a variant of lines 34-35 / 58-59 that expands along axis 0: a rank-1 target
\* becomes a single row
PromoteTargetRow(y_target) ==
    IF Rank(y_target) = 1 THEN Arr(<<1, y_target.shape[1]>>, y_target.flat)
    ELSE y_target

\* lines 34-35 / 58-59: a rank-1 target becomes a single column
PromoteTarget(y_target) ==
    IF Rank(y_target) = 1 THEN ExpandDims(y_target) ELSE y_target

\* a variant of line 37 whose derivative is that of the mean: 2 (p - t) / N
\* rounded towards minus infinity
mean_squared_error_scaled(y_predicted, y_target, return_deriv) ==
    LET t == PromoteTarget(y_target)
    IN  IF ~Broadcastable(y_predicted.shape, t.shape)
        THEN LossRaise("ValueError")
        ELSE LET diff == Zip(LAMBDA a, b : a - b, y_predicted, t)
                 sq == MapArr(LAMBDA d : d * d, diff)
             IN  LossResult("", TRUE, SumSeq(sq.flat), Len(sq.flat), NoArr,
                            IF return_deriv
                            THEN MapArr(LAMBDA d : (2 * d) \div Len(sq.flat), diff)
                            ELSE NoArr)

\* lines 16-38
mean_squared_error(y_predicted, y_target, return_deriv) ==
    LET t == PromoteTarget(y_target)
    IN  IF ~Broadcastable(y_predicted.shape, t.shape)
        THEN LossRaise("ValueError")
        ELSE LET diff == Zip(LAMBDA a, b : a - b, y_predicted, t)
                 sq == MapArr(LAMBDA d : d * d, diff)
             IN  LossResult("", TRUE, SumSeq(sq.flat), Len(sq.flat), NoArr,
                            IF return_deriv THEN diff ELSE NoArr)

\* 1 / 1e-15 and -log(1e-15), in the integer fixed point of this model: TLC's
\* integers are 32 bits wide, so 10^15 is scaled to 10^6 and 34.54 rounded.
InvEps == 1000000

LogInvEps == 35

\* np.clip(p, 1e-15, 1 - 1e-15) of an integer prediction: the lower end for
\* p <= 0 and the upper end for p >= 1
ClipsLow(p) == p <= 0

\* line 63, one element: log(eps) = -LogInvEps, log(1 - eps) rounds to 0
CrlElem(p, t) == IF ClipsLow(p) THEN t * LogInvEps ELSE (1 - t) * LogInvEps

\* line 66, one element: 1/eps = InvEps, 1/(1 - eps) rounds to 1
CeDerivElem(p, t) ==
    IF ClipsLow(p) THEN (1 - t) - t * InvEps ELSE (1 - t) * InvEps - t

cross_entropy(y_predicted, y_target, return_deriv) ==
    LET t == PromoteTarget(y_target)
    IN  IF ~Broadcastable(y_predicted.shape, t.shape)
        THEN LossRaise("ValueError")
        ELSE LossResult("", FALSE, 0, 0, Zip(CrlElem, y_predicted, t),
                        IF return_deriv THEN Zip(CeDerivElem, y_predicted, t)
                        ELSE NoArr)

\* the names getattr(losses, name) resolves: the two loss functions and the
\* module's other globals (its imports and its logger)
LossFunctions == {"mean_squared_error", "cross_entropy"}

LossesNamespace == LossFunctions \cup {"np", "logging", "logger"}

\* self.loss(...) : calling what compile bound
CallLoss(loss, y_predicted, y_target, return_deriv) ==
    IF loss = "mean_squared_error"
    THEN mean_squared_error(y_predicted, y_target, return_deriv)
    ELSE IF loss = "cross_entropy"
    THEN cross_entropy(y_predicted, y_target, return_deriv)
    ELSE LossRaise("TypeError")

(***************************************************************************)
(* The Layer and Optimizer contracts the engine consumes.  The concrete    *)
(* layers are not part of the engine; a layer here is an elementwise       *)
(* affine map  z |-> Scale * z + w  with one trainable parameter w, which  *)
(* obeys the contract: forward computes the output from the input and the  *)
(* current parameter, back_propogate returns the upstream gradient and     *)
(* caches the parameter's gradient, optimize applies the cached gradient.  *)
(***************************************************************************)
LayerObjs == {"L1", "L2"}

Optimizers == {"sgd1", "sgd2"}

Scale(l) == IF l = "L1" THEN 2 ELSE -1

LearningRate(o) == IF o = "sgd1" THEN 1 ELSE 2

\* a layer as constructed: its initial parameter, and no gradient cached
NewLayer(l) == [w |-> IF l = "L1" THEN 1 ELSE 0, cache |-> 0]

LayerForward(l, st, Z) ==
    [out |-> MapArr(LAMBDA z : Scale(l) * z + st.w, Z),
     deriv |-> MapArr(LAMBDA z : Scale(l), Z)]

LayerBackPropogate(l, st, g) ==
    [up |-> MapArr(LAMBDA d : Scale(l) * d, g),
     st |-> [st EXCEPT !.cache = SumSeq(g.flat)]]

\* the parameter is kept within [-WMax, WMax] (weight clipping)
WMax == 8

LayerOptimize(l, st, o) ==
    [st EXCEPT !.w = Max(-WMax, Min(WMax, st.w - LearningRate(o) * st.cache))]

(***************************************************************************)
(* The call log.  One entry per call the engine issues on a collaborator:  *)
(* call is "forward", "back_propogate", "optimize", "loss" or a marker     *)
(* ("batch", "report", "visualize"); pos is the layer's position in the    *)
(* sequence (1-based), obj the layer object, arg the array passed, ret the *)
(* array returned, opt the optimizer passed, ctx "train" for the batch     *)
(* cycle and "report" for the end-of-epoch diagnostic, raised whether the  *)
(* call raised.  A "batch" marker carries the batch's first row in pos and *)
(* its two slices in arg and ret.                                          *)
(***************************************************************************)
Entry(call, pos, obj, arg, ret, opt, ctx, raised) ==
    [call |-> call, pos |-> pos, obj |-> obj, arg |-> arg, ret |-> ret,
     opt |-> opt, ctx |-> ctx, raised |-> raised]

(***************************************************************************)
(* A run threads R = [lay, log, err, calls, fault]: the layers' states,    *)
(* the call log, the exception that ended the run ("" while none), the     *)
(* number of layer calls of each kind issued so far, and the kind of layer *)
(* call whose FaultNth-th call raises ("none": no layer call raises).      *)
(***************************************************************************)
\* which call of the faulty kind raises
FaultNth == 2

FaultKinds == {"none", "forward", "back_propogate", "optimize"}

NewRun(lay, fault) ==
    [lay |-> lay, log |-> <<>>, err |-> "",
     calls |-> [k \in FaultKinds |-> 0], fault |-> fault]

Raise(R, e) == [R EXCEPT !.err = e]

Logged(R, e) == [R EXCEPT !.log = Append(@, e)]

\* a layer call is issued: it is counted, and it raises when it is the faulty one
Issued(R, call) == [R EXCEPT !.calls[call] = @ + 1]

Faulty(R, call) == R.fault = call /\ R.calls[call] + 1 = FaultNth

LayerRaise(R, call, pos, obj, arg, opt, ctx) ==
    Raise(Logged(Issued(R, call),
                 Entry(call, pos, obj, arg, NoArr, opt, ctx, TRUE)),
          "LayerError")

(***************************************************************************)
(* sequential.py.  The model object is M = [layers, loss, optimizer,       *)
(* verbose, vis_each_epoch]; an attribute compile has not set holds        *)
(* Unbound, and reading it raises AttributeError.                          *)
(***************************************************************************)
Unbound == "unbound"

\* batch_size=None, the default of fit
NoneBS == -1

\* a variant of line 185 that does not reassign Z, so that every layer is
\* handed the input X
ForwardDoneKept(l, i, S, f, ctx) ==
    [R |-> Logged(Issued(S.R, "forward"),
                  Entry("forward", i, l, S.Z, f.out, "", ctx, FALSE)),
     Z |-> S.Z, Z_deriv |-> f.deriv]

\* one pass of the loop of forwardpass, line 185, on S = [R, Z, Z_deriv]
ForwardDone(l, i, S, f, ctx) ==
    [R |-> Logged(Issued(S.R, "forward"),
                  Entry("forward", i, l, S.Z, f.out, "", ctx, FALSE)),
     Z |-> f.out, Z_deriv |-> f.deriv]

ForwardCall(l, i, S, ctx) ==
    IF Faulty(S.R, "forward")
    THEN [S EXCEPT !.R = LayerRaise(S.R, "forward", i, l, S.Z, "", ctx)]
    ELSE ForwardDone(l, i, S, LayerForward(l, S.R.lay[l], S.Z), ctx)

\* the loop of forwardpass, lines 184-185
RECURSIVE ForwardLoop(_, _, _, _)
ForwardLoop(layers, i, S, ctx) ==
    IF i > Len(layers) \/ S.R.err # "" THEN S
    ELSE ForwardLoop(layers, i + 1, ForwardCall(layers[i], i, S, ctx), ctx)

\* lines 187-190: with no layer Z_deriv was never assigned
ForwardReturn(f, return_deriv, layers) ==
    IF f.R.err = "" /\ return_deriv /\ Len(layers) = 0
    THEN [f EXCEPT !.R = Raise(f.R, "UnboundLocalError")]
    ELSE f

\* Z_deriv is NoArr while unassigned
forwardpass(layers, R, X, return_deriv, ctx) ==
    ForwardReturn(ForwardLoop(layers, 1, [R |-> R, Z |-> X, Z_deriv |-> NoArr],
                              ctx),
                  return_deriv, layers)

\* np.argmax(predictions, axis=1), which needs a second axis that is not empty
ArgmaxError(a) ==
    IF Rank(a) < 2 THEN "AxisError"
    ELSE IF NCols(a) = 0 THEN "ValueError"
    ELSE ""

\* a variant of lines 209-212 that takes the class indices when prob is set
PredictReturnSwapped(f, prob) ==
    IF f.R.err # "" THEN [R |-> f.R, out |-> NoArr]
    ELSE IF ~prob THEN [R |-> f.R, out |-> f.Z]
    ELSE IF ArgmaxError(f.Z) # ""
    THEN [R |-> Raise(f.R, ArgmaxError(f.Z)), out |-> NoArr]
    ELSE [R |-> f.R, out |-> Argmax1(f.Z)]

\* lines 209-212
PredictReturn(f, prob) ==
    IF f.R.err # "" THEN [R |-> f.R, out |-> NoArr]
    ELSE IF prob THEN [R |-> f.R, out |-> f.Z]
    ELSE IF ArgmaxError(f.Z) # ""
    THEN [R |-> Raise(f.R, ArgmaxError(f.Z)), out |-> NoArr]
    ELSE [R |-> f.R, out |-> Argmax1(f.Z)]

predict(layers, R, X, prob, ctx) ==
    PredictReturn(forwardpass(layers, R, X, FALSE, ctx), prob)

\* y - y_pred of two rank-1 arrays (numpy broadcasts a length of 1)
Diff1(y, y_pred) ==
    LET n == IF Len(y.flat) = 1 THEN Len(y_pred.flat) ELSE Len(y.flat)
        at(a, k) == IF Len(a.flat) = 1 THEN a.flat[1] ELSE a.flat[k]
    IN  Arr(<<n>>, [k \in 1..n |-> at(y, k) - at(y_pred, k)])

\* lines 97-98; the percentage is the quotient num / den.  truediv: whether
\* "/" on two integers is the true division (Python 3) or the floor (Python 2,
\* which this module supports: it imports print_function only).
AccuracyValue(diff_arr, total_samples, truediv) ==
    IF truediv
    THEN [num |-> 100 * total_samples - 50 * CountNonzero(diff_arr),
          den |-> total_samples]
    ELSE [num |-> 100 * total_samples - 100 * (CountNonzero(diff_arr) \div 2),
          den |-> total_samples]

AccuracyResult(R, v) == [R |-> R, num |-> v.num, den |-> v.den]

AccuracyRaise(R, e) == [R |-> Raise(R, e), num |-> 0, den |-> 0]

\* lines 92-98, y being in class-index form
AccuracyReturn(y, p, truediv) ==
    IF p.R.err # "" THEN [R |-> p.R, num |-> 0, den |-> 0]
    ELSE IF Len(y.flat) # Len(p.out.flat) /\ Len(y.flat) # 1
            /\ Len(p.out.flat) # 1
    THEN AccuracyRaise(p.R, "ValueError")
    ELSE IF y.shape[1] = 0 THEN AccuracyRaise(p.R, "ZeroDivisionError")
    ELSE AccuracyResult(p.R, AccuracyValue(Diff1(y, p.out), y.shape[1], truediv))

\* lines 90-98
accuracy(layers, R, X, y, truediv, ctx) ==
    IF Rank(y) > 1 /\ ArgmaxError(y) # ""
    THEN AccuracyRaise(R, ArgmaxError(y))
    ELSE AccuracyReturn(IF Rank(y) > 1 THEN Argmax1(y) ELSE y,
                        predict(layers, R, X, FALSE, ctx), truediv)

\* line 165, on S = [R, dEdO]
OptimizeCall(l, i, S, optimizer) ==
    IF Faulty(S.R, "optimize")
    THEN [S EXCEPT !.R = LayerRaise(S.R, "optimize", i, l, NoArr, optimizer,
                                    "train")]
    ELSE [S EXCEPT !.R =
            [Logged(Issued(S.R, "optimize"),
                    Entry("optimize", i, l, NoArr, NoArr, optimizer, "train",
                          FALSE))
             EXCEPT !.lay[l] = LayerOptimize(l, S.R.lay[l], optimizer)]]

\* a variant of line 164 that drops what back_propogate returns, so that every
\* layer is handed the gradient of the loss
BackPropogateDoneDropped(l, i, S, b) ==
    [R |-> [Logged(Issued(S.R, "back_propogate"),
                   Entry("back_propogate", i, l, S.dEdO, b.up, "", "train",
                         FALSE))
            EXCEPT !.lay[l] = b.st],
     dEdO |-> S.dEdO]

\* line 164: dEdO = layer.back_propogate(dEdO)
BackPropogateDone(l, i, S, b) ==
    [R |-> [Logged(Issued(S.R, "back_propogate"),
                   Entry("back_propogate", i, l, S.dEdO, b.up, "", "train",
                         FALSE))
            EXCEPT !.lay[l] = b.st],
     dEdO |-> b.up]

\* line 164
BackPropogateCall(l, i, S) ==
    IF Faulty(S.R, "back_propogate")
    THEN [S EXCEPT !.R = LayerRaise(S.R, "back_propogate", i, l, S.dEdO, "",
                                    "train")]
    ELSE BackPropogateDone(l, i, S, LayerBackPropogate(l, S.R.lay[l], S.dEdO))

\* one pass of the loop, lines 164-165: optimize is not reached when
\* back_propogate raised
BackwardStep(l, i, S, optimizer) ==
    IF S.R.err # "" THEN S ELSE OptimizeCall(l, i, S, optimizer)

\* the loop of back_propogate_and_update, lines 163-165
RECURSIVE BackwardLoop(_, _, _, _)
BackwardLoop(layers, i, S, optimizer) ==
    IF i < 1 \/ S.R.err # "" THEN S
    ELSE BackwardLoop(layers, i - 1,
             BackwardStep(layers[i], i, BackPropogateCall(layers[i], i, S),
                          optimizer),
             optimizer)

back_propogate_and_update(layers, R, dEdO, optimizer) ==
    BackwardLoop(layers, Len(layers), [R |-> R, dEdO |-> dEdO], optimizer).R

\* line 149, after the loss l was computed on the output f.Z
AfterLoss(M, f, l) ==
    IF l.err # ""
    THEN Raise(Logged(f.R, Entry("loss", 0, "", f.Z, NoArr, "", "train", TRUE)),
               l.err)
    ELSE IF M.optimizer = Unbound
    THEN Raise(Logged(f.R, Entry("loss", 0, "", f.Z, l.deriv, "", "train", FALSE)),
               "AttributeError")
    ELSE back_propogate_and_update(M.layers,
             Logged(f.R, Entry("loss", 0, "", f.Z, l.deriv, "", "train", FALSE)),
             l.deriv, M.optimizer)

\* a variant of line 147 that falls back on mean_squared_error when no loss
\* is bound
AfterForwardDefault(M, f, Y) ==
    IF f.R.err # "" THEN f.R
    ELSE AfterLoss(M, f,
             CallLoss(IF M.loss = Unbound THEN "mean_squared_error" ELSE M.loss,
                      f.Z, Y, TRUE))

\* line 147, after the forward pass f
AfterForward(M, f, Y) ==
    IF f.R.err # "" THEN f.R
    ELSE IF M.loss = Unbound THEN Raise(f.R, "AttributeError")
    ELSE AfterLoss(M, f, CallLoss(M.loss, f.Z, Y, TRUE))

\* __update_batch, lines 145-149
update_batch(M, R, X, Y) ==
    AfterForward(M, forwardpass(M.layers, R, X, FALSE, "train"), Y)

\* lines 128-132: the report is formatted and printed
\* ("{:0.3f}".format(loss) raises on an array that is not a scalar)
ReportPrint(M, l, a, epoch) ==
    IF a.R.err # "" THEN a.R
    ELSE IF ~l.scalar THEN Raise(a.R, "TypeError")
    ELSE IF M.vis_each_epoch
    THEN Logged(Logged(a.R, Entry("report", epoch + 1, "", NoArr, NoArr, "",
                                  "report", FALSE)),
                Entry("visualize", epoch + 1, "", NoArr, NoArr, "", "report",
                      FALSE))
    ELSE Logged(a.R, Entry("report", epoch + 1, "", NoArr, NoArr, "", "report",
                           FALSE))

\* line 127
ReportAccuracy(M, p, l, X, y, epoch) ==
    IF l.err # "" THEN Raise(p.R, l.err)
    ELSE ReportPrint(M, l, accuracy(M.layers, p.R, X, y, TRUE, "report"), epoch)

\* line 126
ReportLoss(M, p, X, y, epoch) ==
    IF p.R.err # "" THEN p.R
    ELSE IF M.loss = Unbound THEN Raise(p.R, "AttributeError")
    ELSE ReportAccuracy(M, p, CallLoss(M.loss, p.out, y, FALSE), X, y, epoch)

\* the end-of-epoch diagnostic, lines 125-132: the predictions, the loss and
\* the accuracy over the whole dataset
EpochReport(M, R, X, y, epoch) ==
    ReportLoss(M, predict(M.layers, R, X, TRUE, "report"), X, y, epoch)

\* lines 120-122
Batch(M, R, current_batch, batch_X, batch_y) ==
    update_batch(M,
        Logged(R, Entry("batch", current_batch, "", batch_X, batch_y, "",
                        "train", FALSE)),
        batch_X, batch_y)

\* a variant of lines 119-122 that catches what a batch raises and goes on
\* with the next batch
RECURSIVE BatchLoopResumed(_, _, _, _, _, _)
BatchLoopResumed(M, X, y, batch_size, current_batch, R) ==
    IF current_batch >= NRows(X) \/ batch_size < 0 THEN R
    ELSE BatchLoopResumed(M, X, y, batch_size, current_batch + batch_size,
             Batch(M, Raise(R, ""), current_batch,
                   SliceRows(X, current_batch, current_batch + batch_size),
                   SliceRows(y, current_batch, current_batch + batch_size)))

\* a variant of line 119 that leaves out the batch a remainder of the rows
\* makes shorter than batch_size
RECURSIVE BatchLoopFull(_, _, _, _, _, _)
BatchLoopFull(M, X, y, batch_size, current_batch, R) ==
    IF current_batch + batch_size > NRows(X) \/ batch_size < 0 \/ R.err # ""
    THEN R
    ELSE BatchLoopFull(M, X, y, batch_size, current_batch + batch_size,
             Batch(M, R, current_batch,
                   SliceRows(X, current_batch, current_batch + batch_size),
                   SliceRows(y, current_batch, current_batch + batch_size)))

\* the batches of one epoch, lines 119-122: range(0, X.shape[0], batch_size)
RECURSIVE BatchLoop(_, _, _, _, _, _)
BatchLoop(M, X, y, batch_size, current_batch, R) ==
    IF current_batch >= NRows(X) \/ batch_size < 0 \/ R.err # "" THEN R
    ELSE BatchLoop(M, X, y, batch_size, current_batch + batch_size,
             Batch(M, R, current_batch,
                   SliceRows(X, current_batch, current_batch + batch_size),
                   SliceRows(y, current_batch, current_batch + batch_size)))

\* line 124, after the batches of the epoch left R
EpochEnd(M, X, y, epochs, epoch, R) ==
    IF R.err # "" THEN R
    ELSE IF M.verbose \/ epoch = epochs - 1 THEN EpochReport(M, R, X, y, epoch)
    ELSE R

\* the epochs, lines 118-132 (range() with a step of 0 raises)
RECURSIVE EpochLoop(_, _, _, _, _, _, _)
EpochLoop(M, X, y, epochs, batch_size, epoch, R) ==
    IF epoch >= epochs \/ R.err # "" THEN R
    ELSE IF batch_size = 0 THEN Raise(R, "ValueError")
    ELSE EpochLoop(M, X, y, epochs, batch_size, epoch + 1,
             EpochEnd(M, X, y, epochs, epoch,
                 BatchLoop(M, X, y, batch_size, 0,
                     Logged(R, Entry("epoch", epoch, "", NoArr, NoArr, "",
                                     "train", FALSE)))))

\* lines 115-132
fit(M, R, X, y, epochs, batch_size) ==
    EpochLoop(M, X, y, epochs,
              IF batch_size = NoneBS THEN NRows(X) ELSE batch_size, 0, R)

(***************************************************************************)
(* The inputs the operations are called with.                              *)
(***************************************************************************)
\* row i (0-based) of the two feature tables: "diag" is the rows [0,0], [1,1],
\* ... and "mix" the rows [0,0], [1,0], [0,1], [1,1], ...
XRow(pattern, i) ==
    IF pattern = "diag" THEN <<i % 2, i % 2>> ELSE <<i % 2, (i \div 2) % 2>>

DataX(pattern, m) ==
    Arr(<<m, 2>>, [n \in 1..(2 * m) |-> XRow(pattern, (n - 1) \div 2)[((n - 1) % 2) + 1]])

\* the targets of m rows whose classes are c[1..m]: a label vector ("vec"),
\* its single-column reshape ("col") or the one-hot rows over two classes
DataY(kind, c) ==
    LET m == Len(c)
    IN  IF kind = "vec" THEN Arr(<<m>>, c)
        ELSE IF kind = "col" THEN Arr(<<m, 1>>, c)
        ELSE Arr(<<m, 2>>, [n \in 1..(2 * m) |->
                 IF c[((n - 1) \div 2) + 1] = (n - 1) % 2 THEN 1 ELSE 0])

Patterns == {"diag", "mix"}

YKinds == {"vec", "col", "onehot"}

Labels(m) == [1..m -> {0, 1}]

\* the training sets: the class of row i is i mod 2
TrainLabels(m) == [i \in 1..m |-> (i - 1) % 2]

TrainSets == {<<"diag", "col">>, <<"mix", "vec">>, <<"mix", "onehot">>}

LossNames == LossFunctions \cup {"np", "hinge"}

(***************************************************************************)
(* The state: the model object's attributes (layers, loss, optimizer,      *)
(* verbose, vis_each_epoch), the layer objects' own states (lay), and, of  *)
(* the call made on the model last: its name and arguments (call), the     *)
(* attributes and layer states it started from (pre), what it returned or  *)
(* raised (ret) and the calls it issued (log).  Between two calls the      *)
(* model is idle: Return is the caller taking the result.                  *)
(***************************************************************************)
VARIABLES layers, loss, optimizer, verbose, vis_each_epoch, lay, call, pre,
          ret, log

vars == <<layers, loss, optimizer, verbose, vis_each_epoch, lay, call, pre,
          ret, log>>

Self == [layers |-> layers, loss |-> loss, optimizer |-> optimizer,
         verbose |-> verbose, vis_each_epoch |-> vis_each_epoch]

Call(op, X, y, epochs, batch_size, flag, name, opt, fault) ==
    [op |-> op, X |-> X, y |-> y, epochs |-> epochs,
     batch_size |-> batch_size, flag |-> flag, name |-> name, opt |-> opt,
     fault |-> fault]

Ret(err, out, out2, num, den) ==
    [err |-> err, out |-> out, out2 |-> out2, num |-> num, den |-> den]

NoCall == Call("idle", NoArr, NoArr, 0, 0, FALSE, "", "", "none")

NoValue == Ret("", NoArr, NoArr, 0, 0)

Idle == call.op = "idle"

Snapshot == [layers |-> layers, loss |-> loss, optimizer |-> optimizer,
             lay |-> lay]

\* __init__, lines 56-58
Init ==
    /\ layers = <<>>
    /\ verbose \in BOOLEAN
    /\ vis_each_epoch \in BOOLEAN
    /\ loss = Unbound
    /\ optimizer = Unbound
    /\ lay = [l \in LayerObjs |-> NewLayer(l)]
    /\ call = NoCall
    /\ pre = [layers |-> <<>>, loss |-> Unbound, optimizer |-> Unbound,
              lay |-> [l \in LayerObjs |-> NewLayer(l)]]
    /\ ret = NoValue
    /\ log = <<>>

\* a variant of add that puts the layer first
AddFirst(layer) ==
    /\ Idle
    /\ Len(layers) < MaxLayers
    /\ layers' = <<layer>> \o layers
    /\ call' = Call("add", NoArr, NoArr, 0, 0, FALSE, layer, "", "none")
    /\ ret' = NoValue
    /\ pre' = Snapshot
    /\ UNCHANGED <<loss, optimizer, verbose, vis_each_epoch, lay, log>>

\* add, line 223
Add(layer) ==
    /\ Idle
    /\ Len(layers) < MaxLayers
    /\ layers' = Append(layers, layer)
    /\ call' = Call("add", NoArr, NoArr, 0, 0, FALSE, layer, "", "none")
    /\ ret' = NoValue
    /\ pre' = Snapshot
    /\ UNCHANGED <<loss, optimizer, verbose, vis_each_epoch, lay, log>>

\* getattr(losses, name)
ResolveLoss(name) == name \in LossesNamespace

\* a variant of compile that binds once: on a model whose optimizer is bound
\* it changes nothing
CompileOnce(opt, name) ==
    /\ Idle
    /\ optimizer' = IF optimizer = Unbound THEN opt ELSE optimizer
    /\ loss' = IF optimizer = Unbound /\ ResolveLoss(name) THEN name ELSE loss
    /\ call' = Call("compile", NoArr, NoArr, 0, 0, FALSE, name, opt, "none")
    /\ ret' = Ret(IF ResolveLoss(name) THEN "" ELSE "AttributeError",
                  NoArr, NoArr, 0, 0)
    /\ pre' = Snapshot
    /\ UNCHANGED <<layers, verbose, vis_each_epoch, lay, log>>

\* compile, lines 71-72: the optimizer is bound, then the loss is looked up
Compile(opt, name) ==
    /\ Idle
    /\ optimizer' = opt
    /\ loss' = IF ResolveLoss(name) THEN name ELSE loss
    /\ call' = Call("compile", NoArr, NoArr, 0, 0, FALSE, name, opt, "none")
    /\ ret' = Ret(IF ResolveLoss(name) THEN "" ELSE "AttributeError",
                  NoArr, NoArr, 0, 0)
    /\ pre' = Snapshot
    /\ UNCHANGED <<layers, verbose, vis_each_epoch, lay, log>>

\* what a run leaves: the layers' states, the log, and the value or exception
Returned(c, R, v) ==
    /\ Idle
    /\ call' = c
    /\ lay' = R.lay
    /\ log' = R.log
    /\ ret' = IF R.err # "" THEN Ret(R.err, NoArr, NoArr, 0, 0) ELSE v
    /\ pre' = Snapshot
    /\ UNCHANGED <<layers, loss, optimizer, verbose, vis_each_epoch>>

Fit(X, y, epochs, batch_size, fault) ==
    Returned(Call("fit", X, y, epochs, batch_size, FALSE, "", "", fault),
             fit(Self, NewRun(lay, fault), X, y, epochs, batch_size), NoValue)

BackPropogateAndUpdate(dEdO, opt, fault) ==
    Returned(Call("back_propogate_and_update", dEdO, NoArr, 0, 0, FALSE, "",
                  opt, fault),
             back_propogate_and_update(layers, NewRun(lay, fault), dEdO, opt),
             NoValue)

ForwardpassReturned(c, f, return_deriv) ==
    Returned(c, f.R,
             Ret("", f.Z, IF return_deriv THEN f.Z_deriv ELSE NoArr, 0, 0))

Forwardpass(X, return_deriv) ==
    ForwardpassReturned(
        Call("forwardpass", X, NoArr, 0, 0, return_deriv, "", "", "none"),
        forwardpass(layers, NewRun(lay, "none"), X, return_deriv, "call"),
        return_deriv)

PredictReturned(c, p) == Returned(c, p.R, Ret("", p.out, NoArr, 0, 0))

Predict(X, prob) ==
    PredictReturned(Call("predict", X, NoArr, 0, 0, prob, "", "", "none"),
                    predict(layers, NewRun(lay, "none"), X, prob, "call"))

AccuracyReturned(c, a) == Returned(c, a.R, Ret("", NoArr, NoArr, a.num, a.den))

Accuracy(X, y, truediv) ==
    AccuracyReturned(Call("accuracy", X, y, 0, 0, truediv, "", "", "none"),
                     accuracy(layers, NewRun(lay, "none"), X, y, truediv, "call"))

\* The caller takes the result and the model is idle again.  A behaviour is
\* followed up to its first training call (fit, back_propogate_and_update):
\* what a call does depends on the model and its layers only, and the layers a
\* training call leaves are not explored as the start of further calls.
TrainingCalls == {"fit", "back_propogate_and_update"}

Return ==
    /\ ~Idle
    /\ call.op \notin TrainingCalls
    /\ call' = NoCall
    /\ ret' = NoValue
    /\ log' = <<>>
    /\ pre' = Snapshot
    /\ UNCHANGED <<layers, loss, optimizer, verbose, vis_each_epoch, lay>>

Build ==
    \/ \E l \in LayerObjs : Add(l)
    \/ \E o \in Optimizers, n \in LossNames : Compile(o, n)

BatchSizes == {NoneBS} \cup 1..MaxRows

\* the engine: construction, training and evaluation with layers that work
Next ==
    \/ Build
    \/ Return
    \/ /\ Idle
       /\ \E d \in TrainSets, m \in 0..MaxRows, e \in 0..MaxEpochs, b \in BatchSizes :
             Fit(DataX(d[1], m), DataY(d[2], TrainLabels(m)), e, b, "none")
    \/ /\ Idle
       /\ \E p \in Patterns, m \in 1..MaxRows, o \in Optimizers :
             BackPropogateAndUpdate(DataX(p, m), o, "none")
    \/ /\ Idle
       /\ \E p \in Patterns, m \in 0..MaxRows, d \in BOOLEAN :
             Forwardpass(DataX(p, m), d)
    \/ /\ Idle
       /\ \E p \in Patterns, m \in 0..MaxRows, d \in BOOLEAN :
             Predict(DataX(p, m), d)
    \/ /\ Idle
       /\ \E d \in TrainSets, m \in 0..MaxRows :
             Accuracy(DataX(d[1], m), DataY(d[2], TrainLabels(m)), TRUE)

Spec == Init /\ [][Next]_vars

\* training with a layer that raises
NextFault ==
    \/ Build
    \/ Return
    \/ /\ Idle
       /\ \E m \in 0..MaxRows, e \in 0..MaxEpochs, b \in BatchSizes,
             f \in FaultKinds \ {"none"} :
             Fit(DataX("mix", m), DataY("vec", TrainLabels(m)), e, b, f)
    \/ /\ Idle
       /\ \E m \in 1..MaxRows, o \in Optimizers, f \in FaultKinds \ {"none"} :
             BackPropogateAndUpdate(DataX("mix", m), o, f)

SpecFault == Init /\ [][NextFault]_vars

\* accuracy over every labelling of the rows
NextAccuracy ==
    \/ \E l \in LayerObjs : Add(l)
    \/ Return
    \/ /\ Idle
       /\ \E p \in Patterns, k \in YKinds, m \in 0..MaxRows, d \in BOOLEAN :
             \E c \in Labels(m) : Accuracy(DataX(p, m), DataY(k, c), d)

SpecAccuracy == Init /\ [][NextAccuracy]_vars

\* the loss functions called on their own
\* the p of c columns and m rows over the values vals
Mats(m, c, vals) == {Arr(<<m, c>>, f) : f \in [1..(m * c) -> vals]}

PredValues == {-1, 0, 1}

TargetValues == {0, 1}

LossCols == {1, 2}

\* a target for m x c predictions: of the same shape, one column, or a vector
TargetKinds == {"same", "col", "vec"}

Targets(kind, m, c) ==
    IF kind = "same" THEN Mats(m, c, TargetValues)
    ELSE IF kind = "col" THEN Mats(m, 1, TargetValues)
    ELSE {Arr(<<m>>, f) : f \in [1..m -> TargetValues]}

\* what a loss function returned: the error (the matrix out, or the scalar
\* num / den when out is NoArr) and the derivative out2
LossRet(l) == Ret(l.err, l.mat, l.deriv, l.num, l.den)

LossReturned(c, l) ==
    /\ Idle
    /\ call' = c
    /\ ret' = LossRet(l)
    /\ pre' = Snapshot
    /\ UNCHANGED <<layers, loss, optimizer, verbose, vis_each_epoch, lay, log>>

LossCall(name, y_predicted, y_target, return_deriv) ==
    LossReturned(Call("loss", y_predicted, y_target, 0, 0, return_deriv, name,
                      "", "none"),
                 CallLoss(name, y_predicted, y_target, return_deriv))

NextLoss ==
    \/ Return
    \/ /\ Idle
       /\ \E name \in LossFunctions, m \in 1..MaxLossRows, c \in LossCols,
             k \in TargetKinds, d \in BOOLEAN :
             \E p \in Mats(m, c, PredValues), t \in Targets(k, m, c) :
                 LossCall(name, p, t, d)

\* the model object plays no part: it is one built as Sequential()
InitLoss == Init /\ ~verbose /\ ~vis_each_epoch

SpecLoss == InitLoss /\ [][NextLoss]_vars

(***************************************************************************)
(* The properties.                                                         *)
(***************************************************************************)
NLayers == Len(layers)

\* C1: one call of back_propogate_and_update(dEdO, optimizer) on a model of
\* n >= 1 layers issues exactly 2n calls: back_propogate on layer n, optimize
\* on layer n, back_propogate on layer n-1, optimize on layer n-1, ... down to
\* layer 1; the back_propogate of layer n receives dEdO, the one of each
\* earlier layer receives what the back_propogate of the layer after it
\* returned, and every optimize receives the optimizer that was passed.
C1_BackwardOrder ==
    (call.op = "back_propogate_and_update" /\ NLayers >= 1) =>
        /\ ret.err = ""
        /\ Len(log) = 2 * NLayers
        /\ \A j \in 1..NLayers :
              /\ log[2 * j - 1].call = "back_propogate"
              /\ log[2 * j - 1].pos = NLayers - j + 1
              /\ log[2 * j - 1].obj = layers[NLayers - j + 1]
              /\ log[2 * j - 1].arg =
                    IF j = 1 THEN call.X ELSE log[2 * j - 3].ret
              /\ log[2 * j].call = "optimize"
              /\ log[2 * j].pos = NLayers - j + 1
              /\ log[2 * j].obj = layers[NLayers - j + 1]
              /\ log[2 * j].opt = call.opt

\* a call on two different layers with a gradient of more than one row
C1_Witness ==
    /\ call.op = "back_propogate_and_update"
    /\ NLayers = 2
    /\ layers[1] # layers[2]
    /\ NRows(call.X) >= 2
    /\ Len(log) = 4
    /\ log[3].arg = log[1].ret
    /\ log[1].ret # call.X

\* the log entries of the epoch whose marker is entry i: up to the next marker
EpochMarks == {i \in DOMAIN log : log[i].call = "epoch"}

EpochLast(i) ==
    IF \E j \in EpochMarks : j > i
    THEN (CHOOSE j \in EpochMarks : j > i /\ \A k \in EpochMarks : k > i => j <= k) - 1
    ELSE Len(log)

BatchesOf(i) == SelectSeq(SubSeq(log, i, EpochLast(i)), LAMBDA e : e.call = "batch")

\* rows lo .. lo + n - 1 (0-based) of an array of rank 1 or 2
RowsOf(a, lo, n) ==
    Arr([a.shape EXCEPT ![1] = n],
        IF Rank(a) = 1 THEN [r \in 1..n |-> a.flat[lo + r]]
        ELSE [q \in 1..(n * NCols(a)) |-> a.flat[lo * NCols(a) + q]])

\* C2: for a dataset of m >= 1 rows and a batch_size k >= 1, each epoch of fit
\* (on a model compiled with a loss function) processes exactly ceil(m / k)
\* batches; batch j (j = 1, 2, ...) starts at row (j-1)*k, holds the k
\* consecutive rows from there, the last batch holding the m - (j-1)*k rows
\* that remain, and its targets are the same rows of y: every row is in
\* exactly one batch, in dataset order.
C2_Batches ==
    (/\ call.op = "fit"
     /\ loss \in LossFunctions
     /\ NRows(call.X) >= 1
     /\ call.batch_size >= 1) =>
        \A i \in EpochMarks :
            /\ Len(BatchesOf(i)) =
                  (NRows(call.X) + call.batch_size - 1) \div call.batch_size
            /\ \A j \in 1..Len(BatchesOf(i)) :
                  /\ BatchesOf(i)[j].pos = (j - 1) * call.batch_size
                  /\ BatchesOf(i)[j].arg =
                        RowsOf(call.X, (j - 1) * call.batch_size,
                               Min(call.batch_size,
                                   NRows(call.X) - (j - 1) * call.batch_size))
                  /\ BatchesOf(i)[j].ret =
                        RowsOf(call.y, (j - 1) * call.batch_size,
                               Min(call.batch_size,
                                   NRows(call.X) - (j - 1) * call.batch_size))

\* three rows in batches of two, over two epochs: the second batch of each
\* epoch is the remainder of one row
C2_Witness ==
    /\ call.op = "fit"
    /\ loss \in LossFunctions
    /\ NLayers >= 1
    /\ NRows(call.X) = 3
    /\ call.batch_size = 2
    /\ Cardinality(EpochMarks) = 2
    /\ \A i \in EpochMarks :
          /\ Len(BatchesOf(i)) = 2
          /\ NRows(BatchesOf(i)[2].arg) = 1

\* C3: compile(optimizer, name) succeeds if and only if name is one of the two
\* loss names mean_squared_error and cross_entropy; with any other name it
\* fails.
C3_KnownNamesOnly ==
    call.op = "compile" => (ret.err = "" <=> call.name \in LossFunctions)

\* C4: on class-index targets (a vector y of m >= 1 labels), accuracy(X, y) is
\* 100 * (m - mismatches) / m, mismatches being the number of rows whose
\* predicted class differs from the label.
LastOutput == IF NLayers = 0 THEN call.X ELSE log[Len(log)].ret

RowOf(a, i) == [j \in 1..NCols(a) |-> a.flat[(i - 1) * NCols(a) + j]]

\* c is the predicted class of a row of outputs: the lowest index (0-based)
\* of its largest entry
IsPredictedClass(row, c) ==
    /\ c \in 0..(Len(row) - 1)
    /\ \A k \in 1..Len(row) : row[k] <= row[c + 1]
    /\ \A k \in 1..c : row[k] < row[c + 1]

Mismatches ==
    Cardinality({i \in 1..NRows(call.y) :
                    ~IsPredictedClass(RowOf(LastOutput, i), call.y.flat[i])})

C4_Percentage ==
    (/\ call.op = "accuracy"
     /\ Rank(call.y) = 1
     /\ NRows(call.y) >= 1
     /\ NRows(call.y) = NRows(call.X)) =>
        /\ ret.err = ""
        /\ ret.num * NRows(call.y) =
              100 * (NRows(call.y) - Mismatches) * ret.den

\* C5: forwardpass(X) on a model of n >= 1 layers calls forward on every
\* layer exactly once, layer 1 first and layer n last; layer 1 receives X,
\* every later layer receives what the layer before it returned, and
\* forwardpass returns what layer n returned.
C5_ForwardOrder ==
    (call.op = "forwardpass" /\ NLayers >= 1) =>
        /\ ret.err = ""
        /\ Len(log) = NLayers
        /\ \A i \in 1..NLayers :
              /\ log[i].call = "forward"
              /\ log[i].pos = i
              /\ log[i].obj = layers[i]
              /\ log[i].arg = IF i = 1 THEN call.X ELSE log[i - 1].ret
        /\ ret.out = log[NLayers].ret

\* a pass through two different layers that both change what they are given
C5_Witness ==
    /\ call.op = "forwardpass"
    /\ ~call.flag
    /\ NLayers = 2
    /\ layers[1] # layers[2]
    /\ NRows(call.X) >= 2
    /\ log[1].ret # call.X
    /\ log[2].arg = log[1].ret
    /\ ret.out = log[2].ret
    /\ ret.out # log[1].ret

\* the layers' states after the calls of a log, in order, that completed
RECURSIVE Replay(_, _)
Replay(st, es) ==
    IF es = <<>> THEN st
    ELSE IF Head(es).raised THEN Replay(st, Tail(es))
    ELSE IF Head(es).call = "back_propogate"
    THEN Replay([st EXCEPT ![Head(es).obj] =
                    LayerBackPropogate(Head(es).obj, @, Head(es).arg).st],
                Tail(es))
    ELSE IF Head(es).call = "optimize"
    THEN Replay([st EXCEPT ![Head(es).obj] =
                    LayerOptimize(Head(es).obj, @, Head(es).opt)],
                Tail(es))
    ELSE Replay(st, Tail(es))

\* C6: when a forward, back_propogate or optimize call of a layer, or the loss
\* call, raises during fit, fit raises and the call that raised is the last one
\* it issued: no call follows it, in that batch, a later batch or a later
\* epoch; and the layers are left as the calls completed before it made them:
\* no update is rolled back.
C6_AbortKeepsUpdates ==
    call.op = "fit" =>
        /\ \A i \in DOMAIN log : log[i].raised => (i = Len(log) /\ ret.err # "")
        /\ ret.err = "LayerError" => (log # <<>> /\ log[Len(log)].raised)
        /\ lay = Replay(pre.lay, log)

\* a layer call raises in the second batch or later, after the first batch
\* changed a parameter
C6_Witness ==
    /\ call.op = "fit"
    /\ ret.err = "LayerError"
    /\ log[Len(log)].raised
    /\ log[Len(log)].ctx = "train"
    /\ Cardinality({i \in DOMAIN log : log[i].call = "batch"}) >= 2
    /\ \E i \in DOMAIN log : log[i].call = "optimize" /\ ~log[i].raised
    /\ \E l \in LayerObjs : lay[l].w # pre.lay[l].w

\* C7 as stated: the loss and the optimizer are those the first successful
\* compile bound; once the loss is bound no later call, a second compile
\* included, changes either of them.
C7_BoundOnce ==
    pre.loss # Unbound => (loss = pre.loss /\ optimizer = pre.optimizer)

\* C7, amended: every compile call binds the optimizer it is passed, and binds
\* the loss its name resolves to when it succeeds (a compile that fails leaves
\* the loss as it was); add, fit, back_propogate_and_update, forwardpass,
\* predict and accuracy change neither.  The bound optimizer is thus the one
\* of the most recent compile call and the bound loss the one of the most
\* recent successful compile call.
C7_LastCompileBinds ==
    /\ call.op = "compile" =>
          /\ optimizer = call.opt
          /\ loss = IF ret.err = "" THEN call.name ELSE pre.loss
    /\ call.op # "compile" =>
          /\ loss = pre.loss
          /\ optimizer = pre.optimizer

\* a second successful compile, with another optimizer and another loss name
C7_Witness ==
    /\ call.op = "compile"
    /\ ret.err = ""
    /\ pre.loss \in LossFunctions
    /\ call.name \in LossFunctions
    /\ call.name # pre.loss
    /\ call.opt # pre.optimizer
    /\ loss = call.name
    /\ optimizer = call.opt

\* C8: predict(X, prob=False) returns one class per row of X: the index of the
\* largest entry of that row of the forward pass's output, the lowest such
\* index when several entries are the largest; predict(X, prob=True) returns
\* the forward pass's output itself.  The output of the forward pass is what
\* the last layer returned (X itself on a model without layers).
C8_Predict ==
    call.op = "predict" =>
        /\ ret.err = ""
        /\ call.flag => ret.out = LastOutput
        /\ ~call.flag =>
              /\ ret.out.shape = <<NRows(call.X)>>
              /\ Len(ret.out.flat) = NRows(call.X)
              /\ \A i \in 1..NRows(call.X) :
                    IsPredictedClass(RowOf(LastOutput, i), ret.out.flat[i])

\* class predictions over rows of all three sorts: the largest entry first,
\* the largest entry second, and both entries equal
C8_Witness ==
    /\ call.op = "predict"
    /\ ~call.flag
    /\ NLayers >= 1
    /\ \E i \in 1..NRows(call.X) :
          /\ RowOf(LastOutput, i)[1] = RowOf(LastOutput, i)[2]
          /\ ret.out.flat[i] = 0
    /\ \E i \in 1..NRows(call.X) :
          /\ RowOf(LastOutput, i)[1] < RowOf(LastOutput, i)[2]
          /\ ret.out.flat[i] = 1
    /\ \E i \in 1..NRows(call.X) :
          /\ RowOf(LastOutput, i)[1] > RowOf(LastOutput, i)[2]
          /\ ret.out.flat[i] = 0

\* what predict(X) returns on the layers in the states st
PredictionsWith(st) == predict(layers, NewRun(st, "none"), call.X, FALSE, "call").out

\* C9: on a model without layers forwardpass(X) returns X unchanged, and fit on
\* such a model, compiled with a loss function and given a dataset of at least
\* one row for at least one epoch, completes and leaves what predict(X) returns
\* as it was before.
C9_ZeroLayers ==
    NLayers = 0 =>
        /\ (call.op = "forwardpass" /\ ~call.flag) =>
              (ret.err = "" /\ ret.out = call.X)
        /\ (/\ call.op = "fit"
            /\ loss \in LossFunctions
            /\ NRows(call.X) >= 1
            /\ call.epochs >= 1) =>
              (ret.err = "" /\ PredictionsWith(lay) = PredictionsWith(pre.lay))

\* the back_propogate and optimize calls of a log, in order
TrainingOf(es) ==
    SelectSeq(es, LAMBDA e : e.call \in {"back_propogate", "optimize"})

SameTraining(R) == TrainingOf(R.log) = TrainingOf(log) /\ R.lay = lay

\* C10: the end-of-epoch report issues no back_propogate and no optimize call,
\* and a fit on the same layers, data, epochs and batch_size issues the same
\* back_propogate and optimize calls, with the same arguments, and leaves the
\* same layer parameters, whatever verbose and vis_each_epoch are.
C10_FlagsInert ==
    call.op = "fit" =>
        /\ \A i \in DOMAIN log :
              log[i].ctx = "report" =>
                  log[i].call \notin {"back_propogate", "optimize"}
        /\ \A v \in BOOLEAN, s \in BOOLEAN :
              SameTraining(fit([Self EXCEPT !.verbose = v, !.vis_each_epoch = s],
                               NewRun(pre.lay, "none"), call.X, call.y,
                               call.epochs, call.batch_size))

\* C11: fit on a model compiled with mean_squared_error or cross_entropy,
\* whose layers never raise, runs exactly `epochs` epochs and returns
\* normally, whatever the number m >= 0 of rows, the number of epochs >= 0 and
\* the batch_size (None or >= 1).
C11_RunsEveryEpoch ==
    (call.op = "fit" /\ loss \in LossFunctions) =>
        /\ ret.err = ""
        /\ Cardinality(EpochMarks) = call.epochs

\* C12: fit with batch_size=None processes exactly one batch in every epoch,
\* and that batch is the whole dataset: every row of X, with every row of y,
\* in the original order.
C12_DefaultBatch ==
    (/\ call.op = "fit"
     /\ call.batch_size = NoneBS
     /\ call.epochs >= 1
     /\ loss \in LossFunctions) =>
        /\ EpochMarks # {}
        /\ \A i \in EpochMarks :
              /\ Len(BatchesOf(i)) = 1
              /\ BatchesOf(i)[1].pos = 0
              /\ BatchesOf(i)[1].arg = call.X
              /\ BatchesOf(i)[1].ret = call.y

\* C13: add(layer) appends the layer at the end of the sequence and leaves the
\* layers before it as they were, in their order; compile, fit,
\* back_propogate_and_update, forwardpass, predict and accuracy leave the
\* sequence unchanged.  The sequence is thus the added layers in call order.
C13_LayersOnlyAppended ==
    /\ call.op = "add" =>
          /\ ret.err = ""
          /\ Len(layers) = Len(pre.layers) + 1
          /\ layers[Len(layers)] = call.name
          /\ \A i \in 1..Len(pre.layers) : layers[i] = pre.layers[i]
    /\ call.op \in {"compile", "fit", "back_propogate_and_update", "forwardpass",
                    "predict", "accuracy"} =>
          layers = pre.layers

\* a second, different layer was added after a first
C13_Witness ==
    /\ call.op = "add"
    /\ pre.layers # <<>>
    /\ Len(layers) = Len(pre.layers) + 1
    /\ layers[Len(layers)] = call.name
    /\ call.name # layers[1]

\* the number of entries of an array
Size(a) == Len(a.flat)

\* C14: for matrices p and t of the same shape (of at least one entry),
\* mean_squared_error(p, t, return_deriv=True) returns as derivative p - t,
\* entry by entry, in the shape of p, not divided by the number of entries;
\* and as error the mean of the (p - t)^2, which is not negative and is 0
\* when p = t.
C14_MeanSquaredError ==
    (/\ call.op = "loss"
     /\ call.name = "mean_squared_error"
     /\ call.flag
     /\ call.y.shape = call.X.shape) =>
        /\ ret.err = ""
        /\ ret.out2.shape = call.X.shape
        /\ Size(ret.out2) = Size(call.X)
        /\ \A n \in 1..Size(call.X) :
              ret.out2.flat[n] = call.X.flat[n] - call.y.flat[n]
        /\ ret.out = NoArr
        /\ ret.den = Size(call.X)
        /\ ret.num = SumSeq([n \in 1..Size(call.X) |->
                               (call.X.flat[n] - call.y.flat[n])
                               * (call.X.flat[n] - call.y.flat[n])])
        /\ ret.num >= 0
        /\ call.X = call.y => ret.num = 0

\* a 2 x 2 case with entries that differ by 2, by 1 and by 0
C14_Witness ==
    /\ call.op = "loss"
    /\ call.name = "mean_squared_error"
    /\ call.flag
    /\ call.X.shape = <<2, 2>>
    /\ call.y.shape = <<2, 2>>
    /\ \E n \in 1..4 : ret.out2.flat[n] = -2
    /\ \E n \in 1..4 : ret.out2.flat[n] = 1
    /\ \E n \in 1..4 : ret.out2.flat[n] = 0
    /\ ret.den = 4
    /\ ret.num > 4

\* the single-column matrix of the entries of a vector
AsColumn(v) == Arr(<<v.shape[1], 1>>, v.flat)

\* C15: mean_squared_error and cross_entropy, with or without the derivative
\* asked for, return for a target vector of length m the very error and
\* derivative they return for the m x 1 matrix of the same entries, whatever
\* the predictions of m rows.
C15_VectorAsColumn ==
    (call.op = "loss" /\ Rank(call.y) = 1) =>
        /\ ret.err = ""
        /\ ret = LossRet(CallLoss(call.name, call.X, AsColumn(call.y), call.flag))
        /\ call.flag => ret.out2.shape = call.X.shape

\* cross_entropy with its derivative, on two rows of two columns and a target
\* vector holding both classes
C15_Witness ==
    /\ call.op = "loss"
    /\ call.name = "cross_entropy"
    /\ call.flag
    /\ call.X.shape = <<2, 2>>
    /\ call.y = Arr(<<2>>, <<0, 1>>)
    /\ call.X.flat[1] # call.X.flat[2]
    /\ ret.out.shape = <<2, 2>>
    /\ ret.out2.shape = <<2, 2>>
    /\ ret.out2.flat[1] # ret.out2.flat[3]

\* the entries after the "batch" marker at index b of the log are one cycle:
\* forward on layers 1..n fed with the batch, the loss, then back_propogate
\* and optimize on layers n..1, and nothing of another batch or of a report
\* in between
CycleAt(b) ==
    /\ Len(log) >= b + 3 * NLayers + 1
    /\ \A i \in 1..NLayers :
          /\ log[b + i].call = "forward"
          /\ log[b + i].ctx = "train"
          /\ log[b + i].pos = i
          /\ log[b + i].arg = IF i = 1 THEN log[b].arg ELSE log[b + i - 1].ret
    /\ log[b + NLayers + 1].call = "loss"
    /\ \A j \in 1..NLayers :
          /\ log[b + NLayers + 2 * j].call = "back_propogate"
          /\ log[b + NLayers + 2 * j].pos = NLayers - j + 1
          /\ log[b + NLayers + 2 * j + 1].call = "optimize"
          /\ log[b + NLayers + 2 * j + 1].pos = NLayers - j + 1
          /\ log[b + NLayers + 2 * j + 1].opt = optimizer
    /\ Len(log) > b + 3 * NLayers + 1 =>
          \/ log[b + 3 * NLayers + 2].call \in {"batch", "epoch"}
          \/ log[b + 3 * NLayers + 2].ctx = "report"

BatchMarks == {b \in DOMAIN log : log[b].call = "batch"}

\* the number of calls of a kind that layer i received in the batch cycles
TrainCalls(kind, i) ==
    Cardinality({x \in DOMAIN log :
                    log[x].call = kind /\ log[x].pos = i /\ log[x].ctx = "train"})

\* the batch size a fit call works with
BatchSizeOf(c) == IF c.batch_size = NoneBS THEN NRows(c.X) ELSE c.batch_size

\* C16: in a fit on a model compiled with a loss function, over m >= 1 rows,
\* every batch is one whole cycle: each layer receives one forward call on
\* the batch's data, then one back_propogate call, then one optimize call
\* carrying the bound optimizer, no call of another batch or of a report comes
\* in between, and no layer receives a training call outside these cycles;
\* over the fit each layer is optimized epochs * ceil(m / k) times.
C16_BatchCycles ==
    (/\ call.op = "fit"
     /\ loss \in LossFunctions
     /\ NRows(call.X) >= 1) =>
        /\ \A b \in BatchMarks : CycleAt(b)
        /\ \A i \in 1..NLayers :
              /\ TrainCalls("forward", i) = Cardinality(BatchMarks)
              /\ TrainCalls("back_propogate", i) = Cardinality(BatchMarks)
              /\ TrainCalls("optimize", i) = Cardinality(BatchMarks)
              /\ TrainCalls("optimize", i) =
                    call.epochs * ((NRows(call.X) + BatchSizeOf(call) - 1)
                                   \div BatchSizeOf(call))

\* C17: forwardpass(X, return_deriv=True) returns, on a model of any number
\* n >= 0 of layers, the pair of the output (the value forwardpass(X) returns)
\* and, when n >= 1, the derivative the forward call of the last layer
\* returned; it raises nothing when no layer does.
C17_ForwardDeriv ==
    (call.op = "forwardpass" /\ call.flag) =>
        /\ ret.err = ""
        /\ ret.out = LastOutput
        /\ NLayers >= 1 =>
              ret.out2 = LayerForward(layers[NLayers], lay[layers[NLayers]],
                                      log[NLayers].arg).deriv

\* what accuracy(X, y) gives for the X of the call and another y
AccuracyWith(y) ==
    accuracy(layers, NewRun(lay, "none"), call.X, y, call.flag, "call")

SameAccuracy(a) == a.R.err = ret.err /\ a.num = ret.num /\ a.den = ret.den

\* C18: a y in class-index form is used as it is, be it a vector of length m
\* or a single-column m x 1 matrix: accuracy(X, y) on a label vector gives
\* what it gives on the m x 1 matrix of the same labels.
C18_ColumnAsVector ==
    (call.op = "accuracy" /\ Rank(call.y) = 1) =>
        SameAccuracy(AccuracyWith(AsColumn(call.y)))

\* C19: a compile call that fails because the loss name is unknown leaves the
\* model unchanged: the optimizer and the loss are what they were before the
\* call (bound or not).
C19_FailedCompileInert ==
    (call.op = "compile" /\ ret.err # "") =>
        /\ optimizer = pre.optimizer
        /\ loss = pre.loss

\* C20: fit on a model that was never compiled (no loss is bound) issues no
\* back_propogate and no optimize call and leaves every layer as it was,
\* whatever the dataset, the epochs and the batch_size; with at least one epoch
\* and at least one row it raises.
C20_UncompiledFit ==
    (call.op = "fit" /\ loss = Unbound) =>
        /\ \A i \in DOMAIN log :
              log[i].call \notin {"back_propogate", "optimize"}
        /\ lay = pre.lay
        /\ (call.epochs >= 1 /\ NRows(call.X) >= 1) => ret.err # ""

\* a fit on layers, never compiled: the forward pass of the first batch is
\* made, then reading the loss raises
C20_Witness ==
    /\ call.op = "fit"
    /\ loss = Unbound
    /\ optimizer = Unbound
    /\ NLayers = 2
    /\ call.epochs >= 1
    /\ NRows(call.X) >= 2
    /\ ret.err = "AttributeError"
    /\ Len(log) = 4
    /\ log[3].call = "forward"
    /\ log[4].call = "forward"

====
